---- MODULE Spec2Model ----
(***************************************************************************)
(* Model of the HDC2080 MicroPython driver (src/src/hdc2080.py).           *)
(*                                                                         *)
(* The driver keeps no state of its own besides the bus handle and the     *)
(* address: all state lives in the sensor's 8-bit registers.  The model    *)
(* holds that register bank, the bus transactions of the operation in      *)
(* progress or last finished, and what that operation returned.            *)
(*                                                                         *)
(* Units.  Physical arguments are exact multiples of 1/Scale (degC, %RH).  *)
(* Results of the 8-bit conversions are counted in 1/256, results of the   *)
(* 16-bit conversions in 1/65536.  For such arguments the float            *)
(* expressions of the code are exact up to the truncation int() performs,  *)
(* so integer arithmetic reproduces them bit for bit.                      *)
(***************************************************************************)
EXTENDS Integers, Sequences, FiniteSets, TLC

VARIABLES regs,        \* the sensor's register bank: address -> byte
          pc,          \* "idle", or the 16-bit read that is between its two bus reads
          op,          \* name of the operation in progress / last finished
          arg,         \* its argument, <<>> when it takes none
          trace,       \* its bus transactions and delays, in order
          status,      \* "none", "running", "ok", "error" (exception propagated)
          result,      \* <<value>> it returned, <<>> when none
          budget,      \* operations the application may still call
          conversions, \* conversions the sensor has completed
          held,        \* raw 16-bit values the sensor held during the 16-bit read
          want,        \* threshold register -> <<physical value last set>>
          probe        \* physical value under test in the threshold specification

vars == <<regs, pc, op, arg, trace, status, result, budget,
          conversions, held, want, probe>>

----------------------------------------------------------------------------
(* Bounds of the model                                                     *)
MaxOps == 2
MaxPriorOps == 1
MaxConversions == 1
Scale == 4

----------------------------------------------------------------------------
(* Register map                                                            *)
TEMP_LOW == 0
TEMP_HIGH == 1
HUMID_LOW == 2
HUMID_HIGH == 3
INTERRUPT_DRDY == 4
TEMP_MAX == 5
HUMID_MAX == 6
INTERRUPT_CONFIG == 7
TEMP_OFFSET_ADJ == 8
HUM_OFFSET_ADJ == 9
TEMP_THR_L == 10
TEMP_THR_H == 11
HUMID_THR_L == 12
HUMID_THR_H == 13
CONFIG == 14
MEAS_CFG == 15
MID_L == 252
MID_H == 253
DEVICE_ID_L == 254
DEVICE_ID_H == 255

(* Constants for settings                                                  *)
FOURTEEN_BIT == 0
ELEVEN_BIT == 1
NINE_BIT == 2

TEMP_AND_HUMID == 0
TEMP_ONLY == 1
HUMID_ONLY == 2

MANUAL == 0
TWO_MINS == 1
ONE_MINS == 2
TEN_SECONDS == 3
FIVE_SECONDS == 4
ONE_HZ == 5
TWO_HZ == 6
FIVE_HZ == 7

ACTIVE_LOW == 0
ACTIVE_HIGH == 1

LEVEL_MODE == 0
COMPARATOR_MODE == 1

Byte == 0..255
Addr == (TEMP_LOW..MEAS_CFG) \cup (MID_L..DEVICE_ID_H)
ThrRegs == {TEMP_THR_L, TEMP_THR_H, HUMID_THR_L, HUMID_THR_H}

----------------------------------------------------------------------------
(* Python's & and | on non-negative integers                               *)
RECURSIVE BitAnd(_, _)
BitAnd(a, b) ==
    IF a = 0 \/ b = 0 THEN 0
    ELSE (a % 2) * (b % 2) + 2 * BitAnd(a \div 2, b \div 2)

RECURSIVE BitOr(_, _)
BitOr(a, b) ==
    IF a = 0 THEN b
    ELSE IF b = 0 THEN a
    ELSE (IF a % 2 = 1 \/ b % 2 = 1 THEN 1 ELSE 0) + 2 * BitOr(a \div 2, b \div 2)

(* int(n/d) for d > 0: Python truncates toward zero                        *)
Trunc(n, d) == IF n >= 0 THEN n \div d ELSE -((-n) \div d)

----------------------------------------------------------------------------
(* Low-level register access.  _write_reg puts value & 0xFF on the wire.   *)
(* The register bank is plain memory: a written byte is what a later read  *)
(* returns; the sensor's own reaction to the reset and trigger bits is not *)
(* part of the driver.                                                     *)
WireByte(value) == value % 256

write_reg(rs, reg, value) == [rs EXCEPT ![reg] = WireByte(value)]

read_reg(rs, reg) == rs[reg]

(* One entry of the trace: a bus transaction or a delay.  ok = FALSE: the  *)
(* transport raised and the exception left the operation.                  *)
Txn(kind, reg, val, ok) == [kind |-> kind, reg |-> reg, val |-> val, ok |-> ok]

Rd(reg, val) == Txn("read", reg, val, TRUE)
RdFail(reg) == Txn("read", reg, -1, FALSE)
Wr(reg, value) == Txn("write", reg, WireByte(value), TRUE)
WrFail(reg, value) == Txn("write", reg, WireByte(value), FALSE)
Sleep(ms) == Txn("sleep", -1, ms, TRUE)

CanCall == pc = "idle" /\ budget > 0

(* The operation is over: it returned res or raised.                       *)
Finish(name, a, t, rs, st, res, w, h) ==
    /\ op' = name
    /\ arg' = a
    /\ trace' = t
    /\ regs' = rs
    /\ status' = st
    /\ result' = res
    /\ want' = w
    /\ held' = h
    /\ pc' = "idle"
    /\ budget' = budget - 1
    /\ UNCHANGED <<conversions, probe>>

Return(name, a, t, rs, st, res) == Finish(name, a, t, rs, st, res, want, {})

(* c = _read_reg(reg); c = <modified c>; _write_reg(reg, c), where n is    *)
(* the modified c.  f names the bus transaction that raises: 0 none,       *)
(* 1 the read, 2 the write.  A write that raises was not acknowledged and  *)
(* leaves the register as it was.                                          *)
ReadModifyWrite(name, a, reg, n, f) ==
    /\ CanCall
    /\ LET c == read_reg(regs, reg) IN
       IF f = 1 THEN Return(name, a, <<RdFail(reg)>>, regs, "error", <<>>)
       ELSE IF f = 2
       THEN Return(name, a, <<Rd(reg, c), WrFail(reg, n)>>, regs, "error", <<>>)
       ELSE Return(name, a, <<Rd(reg, c), Wr(reg, n)>>,
                   write_reg(regs, reg, n), "ok", <<>>)

(* v = _read_reg(reg); return res, where res is the conversion of v        *)
ReadOnly(name, reg, res, f) ==
    /\ CanCall
    /\ LET v == read_reg(regs, reg) IN
       IF f = 1 THEN Return(name, <<>>, <<RdFail(reg)>>, regs, "error", <<>>)
       ELSE Return(name, <<>>, <<Rd(reg, v)>>, regs, "ok", <<res>>)

----------------------------------------------------------------------------
(* Presence check: addr in i2c.scan()                                      *)
addr == 64

is_connected(scan) ==
    /\ CanCall
    /\ Return("is_connected", <<>>, <<Txn("scan", -1, Cardinality(scan), TRUE)>>,
              regs, "ok", <<addr \in scan>>)

----------------------------------------------------------------------------
(* Temperature / Humidity: two one-byte bus reads each                     *)
Raw16(rs, lo, hi) == BitOr(rs[hi] * 256, rs[lo])

TempOf(raw) == raw * 165 - 2654208     \* (raw*165/65536 - 40.5) * 65536
HumidityOf(raw) == raw * 100           \* (raw/65536*100) * 65536

(* low = _read_reg(lo): the first of the two bus reads                     *)
ReadLow(name, lo, hi, f) ==
    /\ CanCall
    /\ IF f = 1
       THEN Return(name, <<>>, <<RdFail(lo)>>, regs, "error", <<>>)
       ELSE /\ op' = name
            /\ arg' = <<>>
            /\ trace' = <<Rd(lo, read_reg(regs, lo))>>
            /\ status' = "running"
            /\ result' = <<>>
            /\ pc' = name
            /\ held' = {Raw16(regs, lo, hi)}
            /\ UNCHANGED <<regs, budget, conversions, want, probe>>

(* raw = (high << 8) | low, with low as read by the first bus read         *)
RawNow(hi) == BitOr(read_reg(regs, hi) * 256, trace[1].val)

(* high = _read_reg(hi); raw = (high << 8) | low; return res, where res is *)
(* the conversion of raw                                                   *)
ReadHigh(name, hi, res, f) ==
    /\ pc = name
    /\ IF f = 1
       THEN Finish(name, <<>>, Append(trace, RdFail(hi)), regs, "error", <<>>,
                   want, held)
       ELSE Finish(name, <<>>, Append(trace, Rd(hi, read_reg(regs, hi))), regs, "ok",
                   <<res>>, want, held)

read_temp_low(f) == ReadLow("read_temp", TEMP_LOW, TEMP_HIGH, f)
read_temp_high(f) == ReadHigh("read_temp", TEMP_HIGH, TempOf(RawNow(TEMP_HIGH)), f)
read_humidity_low(f) == ReadLow("read_humidity", HUMID_LOW, HUMID_HIGH, f)
read_humidity_high(f) == ReadHigh("read_humidity", HUMID_HIGH, HumidityOf(RawNow(HUMID_HIGH)), f)

----------------------------------------------------------------------------
(* Offset registers: write, then return the value read back                *)
read_temp_offset_adjust(f) ==
    ReadOnly("read_temp_offset_adjust", TEMP_OFFSET_ADJ, read_reg(regs, TEMP_OFFSET_ADJ), f)

read_humidity_offset_adjust(f) ==
    ReadOnly("read_humidity_offset_adjust", HUM_OFFSET_ADJ, read_reg(regs, HUM_OFFSET_ADJ), f)

(* SetOffset with a write that is tried again after a failure              *)
SetOffset_retry(name, reg, value, f) ==
    /\ CanCall
    /\ LET after == write_reg(regs, reg, value) IN
       IF f = 1
       THEN Return(name, <<value>>,
                   <<WrFail(reg, value), Wr(reg, value), Rd(reg, read_reg(after, reg))>>,
                   after, "ok", <<read_reg(after, reg)>>)
       ELSE IF f = 2
       THEN Return(name, <<value>>, <<Wr(reg, value), RdFail(reg)>>, after, "error", <<>>)
       ELSE Return(name, <<value>>, <<Wr(reg, value), Rd(reg, read_reg(after, reg))>>,
                   after, "ok", <<read_reg(after, reg)>>)

SetOffset(name, reg, value, f) ==
    /\ CanCall
    /\ LET after == write_reg(regs, reg, value) IN
       IF f = 1 THEN Return(name, <<value>>, <<WrFail(reg, value)>>, regs, "error", <<>>)
       ELSE IF f = 2
       THEN Return(name, <<value>>, <<Wr(reg, value), RdFail(reg)>>, after, "error", <<>>)
       ELSE Return(name, <<value>>, <<Wr(reg, value), Rd(reg, read_reg(after, reg))>>,
                   after, "ok", <<read_reg(after, reg)>>)

set_temp_offset_adjust(value, f) ==
    SetOffset("set_temp_offset_adjust", TEMP_OFFSET_ADJ, value, f)

set_humidity_offset_adjust(value, f) ==
    SetOffset("set_humidity_offset_adjust", HUM_OFFSET_ADJ, value, f)

----------------------------------------------------------------------------
(* Heater                                                                  *)
enable_heater_c(c) == BitOr(c, 8)
disable_heater_c(c) == BitAnd(c, 247)

enable_heater(f) ==
    ReadModifyWrite("enable_heater", <<>>, CONFIG,
                    enable_heater_c(read_reg(regs, CONFIG)), f)

disable_heater(f) ==
    ReadModifyWrite("disable_heater", <<>>, CONFIG,
                    disable_heater_c(read_reg(regs, CONFIG)), f)

----------------------------------------------------------------------------
(* Thresholds.  temp_c and rh are counted in 1/Scale.                      *)
(* ClampTemp without the upper limit                                       *)
ClampTemp_lower_only(temp_c) ==
    IF temp_c < -40 * Scale THEN -40 * Scale ELSE temp_c

ClampTemp(temp_c) ==
    IF temp_c < -40 * Scale THEN -40 * Scale
    ELSE IF temp_c > 125 * Scale THEN 125 * Scale
    ELSE temp_c

ClampHumidity(rh) ==
    IF rh < 0 THEN 0
    ELSE IF rh > 100 * Scale THEN 100 * Scale
    ELSE rh

(* int(256.0 * (temp_c + 40.0) / 165.0) & 0xFF                             *)
TempThresholdVal(temp_c) ==
    BitAnd(Trunc(256 * (ClampTemp(temp_c) + 40 * Scale), 165 * Scale), 255)

(* int(256.0 * rh / 100.0) & 0xFF                                          *)
HumidityThresholdVal(rh) ==
    BitAnd(Trunc(256 * ClampHumidity(rh), 100 * Scale), 255)

SetThreshold(name, reg, x, val, f) ==
    /\ CanCall
    /\ IF f = 1
       THEN Return(name, <<x>>, <<WrFail(reg, val)>>, regs, "error", <<>>)
       ELSE Finish(name, <<x>>, <<Wr(reg, val)>>, write_reg(regs, reg, val),
                   "ok", <<>>, [want EXCEPT ![reg] = <<x>>], {})

set_low_temp(temp_c, f) ==
    SetThreshold("set_low_temp", TEMP_THR_L, temp_c, TempThresholdVal(temp_c), f)

set_high_temp(temp_c, f) ==
    SetThreshold("set_high_temp", TEMP_THR_H, temp_c, TempThresholdVal(temp_c), f)

set_high_humidity(rh, f) ==
    SetThreshold("set_high_humidity", HUMID_THR_H, rh, HumidityThresholdVal(rh), f)

set_low_humidity(rh, f) ==
    SetThreshold("set_low_humidity", HUMID_THR_L, rh, HumidityThresholdVal(rh), f)

(* Thresholds read, in 1/256                                               *)
HumidityOf8(v) == v * 100              \* (v * 100.0 / 256.0) * 256
TempOf8(v) == v * 165 - 40 * 256       \* (v * 165.0 / 256.0 - 40.0) * 256

read_low_humidity_threshold(f) ==
    ReadOnly("read_low_humidity_threshold", HUMID_THR_L, HumidityOf8(read_reg(regs, HUMID_THR_L)), f)

read_high_humidity_threshold(f) ==
    ReadOnly("read_high_humidity_threshold", HUMID_THR_H, HumidityOf8(read_reg(regs, HUMID_THR_H)), f)

read_low_temp_threshold(f) ==
    ReadOnly("read_low_temp_threshold", TEMP_THR_L, TempOf8(read_reg(regs, TEMP_THR_L)), f)

read_high_temp_threshold(f) ==
    ReadOnly("read_high_temp_threshold", TEMP_THR_H, TempOf8(read_reg(regs, TEMP_THR_H)), f)

----------------------------------------------------------------------------
(* Resolution                                                              *)
set_temp_res_c(c, resolution) ==
    IF resolution = FOURTEEN_BIT THEN BitAnd(c, 63)
    ELSE IF resolution = ELEVEN_BIT THEN BitOr(BitAnd(c, 127), 64)
    ELSE IF resolution = NINE_BIT THEN BitOr(BitAnd(c, 191), 128)
    ELSE BitAnd(c, 63)

set_temp_res(resolution, f) ==
    ReadModifyWrite("set_temp_res", <<resolution>>, MEAS_CFG,
                    set_temp_res_c(read_reg(regs, MEAS_CFG), resolution), f)

set_humid_res_c(c, resolution) ==
    IF resolution = FOURTEEN_BIT THEN BitAnd(c, 207)
    ELSE IF resolution = ELEVEN_BIT THEN BitOr(BitAnd(c, 223), 16)
    ELSE IF resolution = NINE_BIT THEN BitOr(BitAnd(c, 239), 32)
    ELSE BitAnd(c, 207)

set_humid_res(resolution, f) ==
    ReadModifyWrite("set_humid_res", <<resolution>>, MEAS_CFG,
                    set_humid_res_c(read_reg(regs, MEAS_CFG), resolution), f)

(* Measurement mode                                                        *)
set_measurement_mode_c(c, mode) ==
    IF mode = TEMP_AND_HUMID THEN BitAnd(c, 249)
    ELSE IF mode = TEMP_ONLY THEN BitOr(BitAnd(c, 252), 2)
    ELSE IF mode = HUMID_ONLY THEN BitOr(BitAnd(c, 253), 4)
    ELSE BitAnd(c, 249)

set_measurement_mode(mode, f) ==
    ReadModifyWrite("set_measurement_mode", <<mode>>, MEAS_CFG,
                    set_measurement_mode_c(read_reg(regs, MEAS_CFG), mode), f)

(* Trigger measurement                                                     *)
trigger_measurement_c(c) == BitOr(c, 1)

trigger_measurement(f) ==
    ReadModifyWrite("trigger_measurement", <<>>, MEAS_CFG,
                    trigger_measurement_c(read_reg(regs, MEAS_CFG)), f)

----------------------------------------------------------------------------
(* Reset: read-modify-write of CONFIG, then time.sleep_ms(50)              *)
reset_c(c) == BitOr(c, 128)

(* reset without the delay                                                 *)
reset_no_delay(f) ==
    ReadModifyWrite("reset", <<>>, CONFIG,
                    reset_c(read_reg(regs, CONFIG)), f)

reset(f) ==
    /\ CanCall
    /\ LET c == read_reg(regs, CONFIG) IN
       IF f = 1 THEN Return("reset", <<>>, <<RdFail(CONFIG)>>, regs, "error", <<>>)
       ELSE IF f = 2
       THEN Return("reset", <<>>, <<Rd(CONFIG, c), WrFail(CONFIG, reset_c(c))>>,
                   regs, "error", <<>>)
       ELSE Return("reset", <<>>, <<Rd(CONFIG, c), Wr(CONFIG, reset_c(c)), Sleep(50)>>,
                   write_reg(regs, CONFIG, reset_c(c)), "ok", <<>>)

(* Interrupt pin enable/disable                                            *)
enable_interrupt_c(c) == BitOr(c, 4)
disable_interrupt_c(c) == BitAnd(c, 251)

enable_interrupt(f) ==
    ReadModifyWrite("enable_interrupt", <<>>, CONFIG,
                    enable_interrupt_c(read_reg(regs, CONFIG)), f)

disable_interrupt(f) ==
    ReadModifyWrite("disable_interrupt", <<>>, CONFIG,
                    disable_interrupt_c(read_reg(regs, CONFIG)), f)

(* Measurement rate                                                        *)
(* set_rate_c that leaves the register as read for an unknown rate         *)
set_rate_c_keep(c, rate) ==
    IF rate = MANUAL THEN BitAnd(c, 143)
    ELSE IF rate = TWO_MINS THEN BitOr(BitAnd(c, 159), 16)
    ELSE IF rate = ONE_MINS THEN BitOr(BitAnd(c, 175), 32)
    ELSE IF rate = TEN_SECONDS THEN BitOr(BitAnd(c, 191), 48)
    ELSE IF rate = FIVE_SECONDS THEN BitOr(BitAnd(c, 207), 64)
    ELSE IF rate = ONE_HZ THEN BitOr(BitAnd(c, 223), 80)
    ELSE IF rate = TWO_HZ THEN BitOr(BitAnd(c, 239), 96)
    ELSE IF rate = FIVE_HZ THEN BitOr(c, 112)
    ELSE c

set_rate_c(c, rate) ==
    IF rate = MANUAL THEN BitAnd(c, 143)
    ELSE IF rate = TWO_MINS THEN BitOr(BitAnd(c, 159), 16)
    ELSE IF rate = ONE_MINS THEN BitOr(BitAnd(c, 175), 32)
    ELSE IF rate = TEN_SECONDS THEN BitOr(BitAnd(c, 191), 48)
    ELSE IF rate = FIVE_SECONDS THEN BitOr(BitAnd(c, 207), 64)
    ELSE IF rate = ONE_HZ THEN BitOr(BitAnd(c, 223), 80)
    ELSE IF rate = TWO_HZ THEN BitOr(BitAnd(c, 239), 96)
    ELSE IF rate = FIVE_HZ THEN BitOr(c, 112)
    ELSE BitAnd(c, 143)

set_rate(rate, f) ==
    ReadModifyWrite("set_rate", <<rate>>, CONFIG,
                    set_rate_c(read_reg(regs, CONFIG), rate), f)

(* Interrupt polarity and mode                                             *)
set_interrupt_polarity_c(c, polarity) ==
    IF polarity = ACTIVE_LOW THEN BitAnd(c, 253)
    ELSE IF polarity = ACTIVE_HIGH THEN BitOr(c, 2)
    ELSE BitAnd(c, 253)

set_interrupt_polarity(polarity, f) ==
    ReadModifyWrite("set_interrupt_polarity", <<polarity>>, CONFIG,
                    set_interrupt_polarity_c(read_reg(regs, CONFIG), polarity), f)

set_interrupt_mode_c(c, mode) ==
    IF mode = LEVEL_MODE THEN BitAnd(c, 254)
    ELSE IF mode = COMPARATOR_MODE THEN BitOr(c, 1)
    ELSE BitAnd(c, 254)

set_interrupt_mode(mode, f) ==
    ReadModifyWrite("set_interrupt_mode", <<mode>>, CONFIG,
                    set_interrupt_mode_c(read_reg(regs, CONFIG), mode), f)

read_interrupt_status(f) ==
    ReadOnly("read_interrupt_status", INTERRUPT_DRDY, read_reg(regs, INTERRUPT_DRDY), f)

----------------------------------------------------------------------------
(* Max values                                                              *)
WriteOnly(name, reg, value, f) ==
    /\ CanCall
    /\ IF f = 1
       THEN Return(name, <<>>, <<WrFail(reg, value)>>, regs, "error", <<>>)
       ELSE Return(name, <<>>, <<Wr(reg, value)>>, write_reg(regs, reg, value), "ok", <<>>)

(* clear_max_temp aimed one register too low                               *)
clear_max_temp_status(f) == WriteOnly("clear_max_temp", INTERRUPT_DRDY, 0, f)

clear_max_temp(f) == WriteOnly("clear_max_temp", TEMP_MAX, 0, f)

clear_max_humidity(f) == WriteOnly("clear_max_humidity", HUMID_MAX, 0, f)

read_max_temp(f) == ReadOnly("read_max_temp", TEMP_MAX, TempOf8(read_reg(regs, TEMP_MAX)), f)

read_max_humidity(f) == ReadOnly("read_max_humidity", HUMID_MAX, HumidityOf8(read_reg(regs, HUMID_MAX)), f)

----------------------------------------------------------------------------
(* Threshold / data-ready interrupts                                       *)
enable_threshold_interrupt_c(c) == BitOr(c, 120)
(* disable_threshold_interrupt_c with a mask that also clears bit 0x80     *)
disable_threshold_interrupt_c_wide(c) == BitAnd(c, 7)

disable_threshold_interrupt_c(c) == BitAnd(c, 135)
enable_drdy_interrupt_c(c) == BitOr(c, 128)
disable_drdy_interrupt_c(c) == BitAnd(c, 127)

enable_threshold_interrupt(f) ==
    ReadModifyWrite("enable_threshold_interrupt", <<>>, INTERRUPT_CONFIG,
                    enable_threshold_interrupt_c(read_reg(regs, INTERRUPT_CONFIG)), f)

disable_threshold_interrupt(f) ==
    ReadModifyWrite("disable_threshold_interrupt", <<>>, INTERRUPT_CONFIG,
                    disable_threshold_interrupt_c(read_reg(regs, INTERRUPT_CONFIG)), f)

enable_drdy_interrupt(f) ==
    ReadModifyWrite("enable_drdy_interrupt", <<>>, INTERRUPT_CONFIG,
                    enable_drdy_interrupt_c(read_reg(regs, INTERRUPT_CONFIG)), f)

disable_drdy_interrupt(f) ==
    ReadModifyWrite("disable_drdy_interrupt", <<>>, INTERRUPT_CONFIG,
                    disable_drdy_interrupt_c(read_reg(regs, INTERRUPT_CONFIG)), f)

----------------------------------------------------------------------------
(* The sensor completes a conversion and replaces both measurement         *)
(* register pairs; it runs on its own clock, whatever the driver is doing. *)
RawSamples == {<<26214, 32896>>}

SensorConversion(t, h) ==
    /\ conversions < MaxConversions
    /\ conversions' = conversions + 1
    /\ regs' = [regs EXCEPT ![TEMP_LOW] = t % 256, ![TEMP_HIGH] = t \div 256,
                            ![HUMID_LOW] = h % 256, ![HUMID_HIGH] = h \div 256]
    /\ held' = IF pc = "read_temp" THEN held \cup {t}
               ELSE IF pc = "read_humidity" THEN held \cup {h}
               ELSE held
    /\ UNCHANGED <<pc, op, arg, trace, status, result, budget, want, probe>>

----------------------------------------------------------------------------
(* Arguments the application passes                                        *)
ResolutionArgs == -1..3
ModeArgs == -1..3
RateArgs == -1..8
PolarityArgs == -1..2
OffsetArgs == {-1, 256}
TempArgs == {25 * Scale, 200 * Scale}
HumidityArgs == {-10 * Scale, 50 * Scale}
Scans == {{}, {addr}}
ProbeArgs == (-50 * Scale)..(210 * Scale)

(* The register bank with the three configuration registers at b;         *)
(* b = 0 is the sensor after power-on.                                     *)
ConfiguredAt(b) ==
    [r \in Addr |-> IF r \in {CONFIG, MEAS_CFG, INTERRUPT_CONFIG} THEN b ELSE 0]

Idle(rs, n, p) ==
    /\ regs = rs
    /\ pc = "idle"
    /\ op = "none"
    /\ arg = <<>>
    /\ trace = <<>>
    /\ status = "none"
    /\ result = <<>>
    /\ budget = n
    /\ conversions = 0
    /\ held = {}
    /\ want = [r \in ThrRegs |-> <<>>]
    /\ probe = p

(* A driver object is constructed on a sensor after power-on.              *)
Init == Idle(ConfiguredAt(0), MaxOps, 0)

Next ==
    \/ \E scan \in Scans : is_connected(scan)
    \/ \E f \in 0..1 : read_temp_low(f)
    \/ \E f \in 0..1 : read_temp_high(f)
    \/ \E f \in 0..1 : read_humidity_low(f)
    \/ \E f \in 0..1 : read_humidity_high(f)
    \/ \E f \in 0..1 : read_temp_offset_adjust(f)
    \/ \E f \in 0..1 : read_humidity_offset_adjust(f)
    \/ \E value \in OffsetArgs, f \in 0..2 : set_temp_offset_adjust(value, f)
    \/ \E value \in OffsetArgs, f \in 0..2 : set_humidity_offset_adjust(value, f)
    \/ \E f \in 0..2 : enable_heater(f)
    \/ \E f \in 0..2 : disable_heater(f)
    \/ \E temp_c \in TempArgs, f \in 0..1 : set_low_temp(temp_c, f)
    \/ \E temp_c \in TempArgs, f \in 0..1 : set_high_temp(temp_c, f)
    \/ \E rh \in HumidityArgs, f \in 0..1 : set_high_humidity(rh, f)
    \/ \E rh \in HumidityArgs, f \in 0..1 : set_low_humidity(rh, f)
    \/ \E f \in 0..1 : read_low_humidity_threshold(f)
    \/ \E f \in 0..1 : read_high_humidity_threshold(f)
    \/ \E f \in 0..1 : read_low_temp_threshold(f)
    \/ \E f \in 0..1 : read_high_temp_threshold(f)
    \/ \E resolution \in ResolutionArgs \ {-1}, f \in 0..2 : set_temp_res(resolution, f)
    \/ \E resolution \in ResolutionArgs \ {-1}, f \in 0..2 : set_humid_res(resolution, f)
    \/ \E mode \in ModeArgs \ {-1}, f \in 0..2 : set_measurement_mode(mode, f)
    \/ \E f \in 0..2 : trigger_measurement(f)
    \/ \E f \in 0..2 : reset(f)
    \/ \E f \in 0..2 : enable_interrupt(f)
    \/ \E f \in 0..2 : disable_interrupt(f)
    \/ \E rate \in RateArgs \ {-1}, f \in 0..2 : set_rate(rate, f)
    \/ \E polarity \in PolarityArgs \ {-1}, f \in 0..2 : set_interrupt_polarity(polarity, f)
    \/ \E mode \in PolarityArgs \ {-1}, f \in 0..2 : set_interrupt_mode(mode, f)
    \/ \E f \in 0..1 : read_interrupt_status(f)
    \/ \E f \in 0..1 : clear_max_temp(f)
    \/ \E f \in 0..1 : clear_max_humidity(f)
    \/ \E f \in 0..1 : read_max_temp(f)
    \/ \E f \in 0..1 : read_max_humidity(f)
    \/ \E f \in 0..2 : enable_threshold_interrupt(f)
    \/ \E f \in 0..2 : disable_threshold_interrupt(f)
    \/ \E f \in 0..2 : enable_drdy_interrupt(f)
    \/ \E f \in 0..2 : disable_drdy_interrupt(f)
    \/ \E s \in RawSamples : SensorConversion(s[1], s[2])

Spec == Init /\ [][Next]_vars

(* Threshold conversions on a fine grid: the value under test is drawn at  *)
(* the start, the setters are applied to it and the thresholds read back.  *)
InitThr == \E p \in ProbeArgs : Idle(ConfiguredAt(0), MaxOps, p)

NextThr ==
    \/ set_low_temp(probe, 0)
    \/ set_high_temp(probe, 0)
    \/ set_high_humidity(probe, 0)
    \/ set_low_humidity(probe, 0)
    \/ read_low_humidity_threshold(0)
    \/ read_high_humidity_threshold(0)
    \/ read_low_temp_threshold(0)
    \/ read_high_temp_threshold(0)

SpecThr == InitThr /\ [][NextThr]_vars

(* The configuration setters on a sensor whose configuration registers     *)
(* were left at any value b by earlier use.                                *)
InitPrior == \E b \in Byte : Idle(ConfiguredAt(b), MaxPriorOps, 0)

NextPrior ==
    \/ \E f \in 0..2 : enable_heater(f)
    \/ \E f \in 0..2 : disable_heater(f)
    \/ \E resolution \in ResolutionArgs, f \in 0..2 : set_temp_res(resolution, f)
    \/ \E resolution \in ResolutionArgs, f \in 0..2 : set_humid_res(resolution, f)
    \/ \E mode \in ModeArgs, f \in 0..2 : set_measurement_mode(mode, f)
    \/ \E f \in 0..2 : trigger_measurement(f)
    \/ \E f \in 0..2 : reset(f)
    \/ \E f \in 0..2 : enable_interrupt(f)
    \/ \E f \in 0..2 : disable_interrupt(f)
    \/ \E rate \in RateArgs, f \in 0..2 : set_rate(rate, f)
    \/ \E polarity \in PolarityArgs, f \in 0..2 : set_interrupt_polarity(polarity, f)
    \/ \E mode \in PolarityArgs, f \in 0..2 : set_interrupt_mode(mode, f)
    \/ \E f \in 0..2 : enable_threshold_interrupt(f)
    \/ \E f \in 0..2 : disable_threshold_interrupt(f)
    \/ \E f \in 0..2 : enable_drdy_interrupt(f)
    \/ \E f \in 0..2 : disable_drdy_interrupt(f)

SpecPrior == InitPrior /\ [][NextPrior]_vars

----------------------------------------------------------------------------
(* Vocabulary of the properties                                            *)

(* The register and the bit field each configuration setter owns.          *)
FieldSetters ==
    {"set_temp_res", "set_humid_res", "set_measurement_mode", "trigger_measurement",
     "set_rate", "set_interrupt_polarity", "set_interrupt_mode", "enable_heater",
     "disable_heater", "enable_interrupt", "disable_interrupt", "reset"}

EnumSetters ==
    {"set_temp_res", "set_humid_res", "set_measurement_mode", "set_rate",
     "set_interrupt_polarity", "set_interrupt_mode"}

RegisterOf(o) ==
    IF o \in {"set_temp_res", "set_humid_res", "set_measurement_mode",
              "trigger_measurement"} THEN MEAS_CFG
    ELSE IF o \in {"enable_threshold_interrupt", "disable_threshold_interrupt",
                   "enable_drdy_interrupt", "disable_drdy_interrupt"} THEN INTERRUPT_CONFIG
    ELSE CONFIG

FieldOf(o) ==
    CASE o = "set_temp_res" -> 192
      [] o = "set_humid_res" -> 48
      [] o = "set_measurement_mode" -> 6
      [] o = "trigger_measurement" -> 1
      [] o = "set_rate" -> 112
      [] o = "set_interrupt_polarity" -> 2
      [] o = "set_interrupt_mode" -> 1
      [] o \in {"enable_heater", "disable_heater"} -> 8
      [] o \in {"enable_interrupt", "disable_interrupt"} -> 4
      [] o \in {"reset", "enable_drdy_interrupt", "disable_drdy_interrupt"} -> 128

(* The recognised options of an enumeration setter, and the pattern an     *)
(* option puts in the field.                                               *)
OptionsOf(o) ==
    CASE o \in {"set_temp_res", "set_humid_res"} -> FOURTEEN_BIT..NINE_BIT
      [] o = "set_measurement_mode" -> TEMP_AND_HUMID..HUMID_ONLY
      [] o = "set_rate" -> MANUAL..FIVE_HZ
      [] o = "set_interrupt_polarity" -> ACTIVE_LOW..ACTIVE_HIGH
      [] o = "set_interrupt_mode" -> LEVEL_MODE..COMPARATOR_MODE

PatternOf(o, option) ==
    CASE o = "set_temp_res" -> option * 64
      [] o = "set_humid_res" -> option * 16
      [] o = "set_measurement_mode" -> option * 2
      [] o = "set_rate" -> option * 16
      [] o = "set_interrupt_polarity" -> option * 2
      [] o = "set_interrupt_mode" -> option

(* What the setter writes for its default option when it has read c.       *)
DefaultWrite(o, c) ==
    CASE o = "set_temp_res" -> set_temp_res_c(c, FOURTEEN_BIT)
      [] o = "set_humid_res" -> set_humid_res_c(c, FOURTEEN_BIT)
      [] o = "set_measurement_mode" -> set_measurement_mode_c(c, TEMP_AND_HUMID)
      [] o = "set_rate" -> set_rate_c(c, MANUAL)
      [] o = "set_interrupt_polarity" -> set_interrupt_polarity_c(c, ACTIVE_LOW)
      [] o = "set_interrupt_mode" -> set_interrupt_mode_c(c, LEVEL_MODE)

Outside(field) == 255 - field

(* The operation got as far as its write: trace[1] is the read, trace[2]   *)
(* the write.                                                              *)
WroteBack == Len(trace) >= 2 /\ trace[1].kind = "read" /\ trace[2].kind = "write"

Failed(t) == {i \in DOMAIN t : ~t[i].ok}
Writes(t) == {i \in DOMAIN t : t[i].kind = "write"}

----------------------------------------------------------------------------
(* C1: every configuration setter on MEAS_CFG or CONFIG writes back a      *)
(* value whose bits outside the setter's own field equal the bits it read. *)
C1_ReadModifyWriteIsolation ==
    (op \in FieldSetters /\ WroteBack) =>
        /\ trace[2].reg = RegisterOf(op)
        /\ BitAnd(trace[2].val, Outside(FieldOf(op)))
             = BitAnd(trace[1].val, Outside(FieldOf(op)))

(* C2: after an enumeration setter returns for a recognised option, the    *)
(* option's field of the register holds exactly that option's pattern.     *)
C2_FieldHoldsOption ==
    (op \in EnumSetters /\ status = "ok" /\ arg[1] \in OptionsOf(op)) =>
        BitAnd(regs[RegisterOf(op)], FieldOf(op)) = PatternOf(op, arg[1])

(* C3: for an argument outside the enumeration the setter raises nothing   *)
(* of its own and writes the value it writes for the default option, whose *)
(* field holds the fallback pattern (all zero); the register then holds it.*)
C3_FallbackForUnrecognised ==
    (op \in EnumSetters /\ arg[1] \notin OptionsOf(op)) =>
        /\ Failed(trace) = {} => (status = "ok" /\ WroteBack /\ Len(trace) = 2)
        /\ WroteBack =>
             /\ trace[2].reg = RegisterOf(op)
             /\ BitAnd(trace[2].val, FieldOf(op)) = 0
             /\ trace[2].val = DefaultWrite(op, trace[1].val)
        /\ status = "ok" => regs[RegisterOf(op)] = trace[2].val

C3_Witness ==
    /\ op = "set_rate"
    /\ arg = <<8>>
    /\ status = "ok"
    /\ trace[1].val = 255
    /\ regs[CONFIG] = 143

----------------------------------------------------------------------------
(* C4: a threshold read after the matching threshold write of a value in   *)
(* the valid range returns a value within one quantization step of it      *)
(* (165/256 degC, 100/256 %RH).  want is in 1/Scale, result in 1/256.      *)
C4_ThresholdRoundTrip ==
    /\ \A r \in {TEMP_THR_L, TEMP_THR_H} :
         ( /\ op = (IF r = TEMP_THR_L THEN "read_low_temp_threshold"
                                      ELSE "read_high_temp_threshold")
           /\ status = "ok"
           /\ want[r] # <<>>
           /\ want[r][1] >= -40 * Scale
           /\ want[r][1] <= 125 * Scale )
         => LET d == result[1] * Scale - 256 * want[r][1]
            IN  d <= 165 * Scale /\ -d <= 165 * Scale
    /\ \A r \in {HUMID_THR_L, HUMID_THR_H} :
         ( /\ op = (IF r = HUMID_THR_L THEN "read_low_humidity_threshold"
                                       ELSE "read_high_humidity_threshold")
           /\ status = "ok"
           /\ want[r] # <<>>
           /\ want[r][1] >= 0
           /\ want[r][1] <= 100 * Scale )
         => LET d == result[1] * Scale - 256 * want[r][1]
            IN  d <= 100 * Scale /\ -d <= 100 * Scale

(* C5: a threshold setter issues one write, to the threshold register it   *)
(* names, of a byte in 0..255; above the range that byte is the one        *)
(* written for the upper limit, below the range the one for the lower.     *)
ThresholdSetters ==
    {"set_low_temp", "set_high_temp", "set_high_humidity", "set_low_humidity"}

ThresholdOf(o) ==
    CASE o = "set_low_temp" -> TEMP_THR_L
      [] o = "set_high_temp" -> TEMP_THR_H
      [] o = "set_high_humidity" -> HUMID_THR_H
      [] o = "set_low_humidity" -> HUMID_THR_L

C5_ThresholdClamping ==
    (op \in ThresholdSetters) =>
        /\ Len(trace) = 1
        /\ trace[1].kind = "write"
        /\ trace[1].reg = ThresholdOf(op)
        /\ trace[1].val \in Byte
        /\ status = "ok" => regs[ThresholdOf(op)] = trace[1].val
        /\ \A r \in Addr \ ThrRegs : regs[r] = 0
        /\ op \in {"set_low_temp", "set_high_temp"} =>
             /\ arg[1] > 125 * Scale => trace[1].val = TempThresholdVal(125 * Scale)
             /\ arg[1] < -40 * Scale => trace[1].val = TempThresholdVal(-40 * Scale)
        /\ op \in {"set_high_humidity", "set_low_humidity"} =>
             /\ arg[1] > 100 * Scale => trace[1].val = HumidityThresholdVal(100 * Scale)
             /\ arg[1] < 0 => trace[1].val = HumidityThresholdVal(0)

C5_Witness ==
    /\ op = "set_high_temp"
    /\ arg = <<200 * Scale>>
    /\ status = "ok"
    /\ regs[TEMP_THR_H] = TempThresholdVal(125 * Scale)

(* C6: reset issues at most one write, to CONFIG, of the value just read   *)
(* with bit 0x80 set and the other bits unchanged; when it returns, that   *)
(* write is followed by the 50 ms delay and by nothing else.               *)
C6_ResetWriteThenDelay ==
    (op = "reset") =>
        /\ Cardinality(Writes(trace)) <= 1
        /\ \A i \in Writes(trace) :
             /\ i = 2
             /\ trace[1].kind = "read" /\ trace[1].reg = CONFIG /\ trace[1].ok
             /\ trace[2].reg = CONFIG
             /\ BitAnd(trace[2].val, 128) = 128
             /\ BitAnd(trace[2].val, 127) = BitAnd(trace[1].val, 127)
        /\ \A i \in DOMAIN trace :
             trace[i].kind = "sleep" => (i = 3 /\ i = Len(trace) /\ trace[2].ok)
        /\ status = "ok" =>
             /\ Len(trace) = 3
             /\ trace[2].kind = "write" /\ trace[2].ok
             /\ trace[3] = Sleep(50)
             /\ regs[CONFIG] = trace[2].val

C6_Witness ==
    /\ op = "reset"
    /\ status = "ok"
    /\ trace[1].val = 85
    /\ regs[CONFIG] = 213
    /\ trace[3].kind = "sleep"

(* C7: every write of the driver targets one of the addresses 0x05..0x0F;  *)
(* no step changes an identification register, and no step of the driver   *)
(* changes a measurement or status register 0x00..0x04.                    *)
C7_NeverWritesIdentification ==
    [][ /\ \A i \in DOMAIN trace' :
             trace'[i].kind = "write" => trace'[i].reg \in TEMP_MAX..MEAS_CFG
        /\ \A r \in MID_L..DEVICE_ID_H : regs'[r] = regs[r]
        /\ conversions' = conversions =>
             \A r \in TEMP_LOW..INTERRUPT_DRDY : regs'[r] = regs[r] ]_vars

C7_Witness ==
    /\ op = "clear_max_temp"
    /\ status = "ok"
    /\ trace = <<Wr(TEMP_MAX, 0)>>
    /\ conversions > 0

(* C8: a bus transaction that fails is the last one of its operation, and  *)
(* the operation ends with the failure; when no write went through, the    *)
(* register bank is as it was.                                             *)
C8_FailureEndsOperation ==
    [][ budget' = budget - 1 =>
          /\ status' = "error" <=> Failed(trace') # {}
          /\ \A i \in Failed(trace') :
               /\ i = Len(trace')
               /\ result' = <<>>
               /\ (\A j \in Writes(trace') : ~trace'[j].ok) => regs' = regs ]_vars

C8_Witness ==
    /\ op = "set_temp_offset_adjust"
    /\ arg = <<-1>>
    /\ status = "error"
    /\ trace = <<WrFail(TEMP_OFFSET_ADJ, 255)>>

(* C9: a 16-bit measurement read that returns was computed from one raw    *)
(* value the sensor held during the call.                                  *)
C9_MeasurementFromOneConversion ==
    /\ (op = "read_temp" /\ status = "ok") =>
          result[1] \in {TempOf(raw) : raw \in held}
    /\ (op = "read_humidity" /\ status = "ok") =>
          result[1] \in {HumidityOf(raw) : raw \in held}

(* C10, as stated: each enable/disable operation changes at most one bit   *)
(* of its register, sets it when enabling and clears it when disabling.    *)
Enablers ==
    {"enable_heater", "enable_interrupt", "reset", "enable_drdy_interrupt",
     "enable_threshold_interrupt"}

Disablers ==
    {"disable_heater", "disable_interrupt", "disable_drdy_interrupt",
     "disable_threshold_interrupt"}

ThresholdInterruptOps == {"enable_threshold_interrupt", "disable_threshold_interrupt"}

TogglesOnly(field) ==
    /\ trace[2].reg = RegisterOf(op)
    /\ BitAnd(trace[2].val, Outside(field)) = BitAnd(trace[1].val, Outside(field))
    /\ op \in Enablers => BitAnd(trace[2].val, field) = field
    /\ op \in Disablers => BitAnd(trace[2].val, field) = 0
    /\ status = "ok" => regs[RegisterOf(op)] = trace[2].val

C10_SingleBitToggle ==
    (op \in Enablers \cup Disablers /\ WroteBack) =>
        IF op \in ThresholdInterruptOps
        THEN \E bit \in {1, 2, 4, 8, 16, 32, 64, 128} : TogglesOnly(bit)
        ELSE TogglesOnly(FieldOf(op))

(* C10, amended: the threshold-interrupt pair toggles the four bits 0x78   *)
(* of interrupt-config together; every other pair toggles its one bit.     *)
C10_FixedFieldToggle ==
    (op \in Enablers \cup Disablers /\ WroteBack) =>
        IF op \in ThresholdInterruptOps
        THEN TogglesOnly(120)
        ELSE TogglesOnly(FieldOf(op))

C10_Witness ==
    /\ op = "enable_threshold_interrupt"
    /\ status = "ok"
    /\ trace[1].val = 129
    /\ regs[INTERRUPT_CONFIG] = 249

====
